---- MODULE Spec2Model ----
(***************************************************************************)
(* Model of src/tm.py: the analysis run of the time-series app.  One run   *)
(* loads a table indexed by Month, checks for the 'Passengers' column and  *)
(* then, inside one try block, decomposes the series, emits the trend,     *)
(* seasonality and irregularity verdicts, runs the ADF test, computes      *)
(* ACF/PACF, and emits the mean-reversion and volatility verdicts.  Any    *)
(* exception raised inside the block is reported by one st.error call.     *)
(*                                                                         *)
(* Numbers are exact rationals: a cell is a record [k, n, d] where k is    *)
(* "num" (the value n/d, d > 0, in lowest terms), "nan", "inf" or "ninf".  *)
(* A standard deviation compared with a threshold is decided on the        *)
(* variance (std > 10 is var > 100).                                       *)
(***************************************************************************)
EXTENDS Integers, Sequences, FiniteSets, TLC

(***************************************************************************)
(* Bounds of the model.                                                    *)
(***************************************************************************)
MaxLen == 9     \* short series have 0..MaxLen rows
MaxPat == 3     \* a series repeats a pattern of MaxPat values

(***************************************************************************)
(* Constants of the program.                                               *)
(***************************************************************************)
MaxLagCap == 40              \* tm.py:91   min(len(df) - 1, 40)
RollingWindow == 12          \* tm.py:104  rolling(window=12)
IrregularityThreshold == 10  \* tm.py:78   resid std > 10
MeanReversionThreshold == 10 \* tm.py:105  rolling-mean std > 10

(***************************************************************************)
(* Exact arithmetic on cells.                                              *)
(***************************************************************************)
RECURSIVE GCD(_, _)
GCD(a, b) == IF b = 0 THEN a ELSE GCD(b, a % b)

Abs(a) == IF a < 0 THEN -a ELSE a

Rat(n, d) ==
    LET g == GCD(Abs(n), d)
    IN  [k |-> "num", n |-> n \div g, d |-> d \div g]

Num(i) == [k |-> "num", n |-> i, d |-> 1]
NaN == [k |-> "nan", n |-> 0, d |-> 1]
PosInf == [k |-> "inf", n |-> 0, d |-> 1]
NegInf == [k |-> "ninf", n |-> 0, d |-> 1]
Zero == Num(0)

IsNum(c) == c.k = "num"
IsNaN(c) == c.k = "nan"
IsInf(c) == c.k \in {"inf", "ninf"}

\* float subtraction: NaN propagates, inf - inf is NaN
Sub(a, b) ==
    IF IsNaN(a) \/ IsNaN(b) THEN NaN
    ELSE IF IsInf(a) /\ IsInf(b) THEN (IF a.k = b.k THEN NaN ELSE a)
    ELSE IF IsInf(a) THEN a
    ELSE IF IsInf(b) THEN (IF b.k = "inf" THEN NegInf ELSE PosInf)
    ELSE LET g == GCD(a.d, b.d)
         IN  Rat(a.n * (b.d \div g) - b.n * (a.d \div g), (a.d \div g) * b.d)

Add(a, b) ==
    IF IsNaN(a) \/ IsNaN(b) THEN NaN
    ELSE IF IsInf(a) /\ IsInf(b) THEN (IF a.k = b.k THEN a ELSE NaN)
    ELSE IF IsInf(a) THEN a
    ELSE IF IsInf(b) THEN b
    ELSE LET g == GCD(a.d, b.d)
         IN  Rat(a.n * (b.d \div g) + b.n * (a.d \div g), (a.d \div g) * b.d)

\* float division of two finite numbers: x/0 is +-inf, 0/0 is NaN
Div(a, b) ==
    IF ~IsNum(a) \/ ~IsNum(b) THEN NaN
    ELSE IF b.n = 0 THEN (IF a.n = 0 THEN NaN ELSE IF a.n > 0 THEN PosInf ELSE NegInf)
    ELSE IF b.n > 0 THEN Rat(a.n * b.d, a.d * b.n)
    ELSE Rat(-(a.n * b.d), a.d * (-b.n))

DivInt(a, m) == Div(a, Num(m))

Greater(a, m) == IsNum(a) /\ a.n > m * a.d

RECURSIVE SumRange(_, _, _)
\* s[lo] + ... + s[hi], summed by halves
SumRange(s, lo, hi) ==
    IF lo > hi THEN Zero
    ELSE IF lo = hi THEN s[lo]
    ELSE LET mid == (lo + hi) \div 2
         IN  Add(SumRange(s, lo, mid), SumRange(s, mid + 1, hi))

SumSeq(s) == SumRange(s, 1, Len(s))

NotNaN(c) == ~IsNaN(c)

\* Series.dropna()
dropna(s) == SelectSeq(s, NotNaN)

\* Series.mean(): NaN entries skipped, NaN when nothing is left
mean(s) ==
    LET v == dropna(s)
    IN  IF v = <<>> THEN NaN ELSE DivInt(SumSeq(v), Len(v))

RECURSIVE IntSum(_, _, _)
\* a[lo] + ... + a[hi] for integers, summed by halves
IntSum(a, lo, hi) ==
    IF lo > hi THEN 0
    ELSE IF lo = hi THEN a[lo]
    ELSE LET mid == (lo + hi) \div 2
         IN  IntSum(a, lo, mid) + IntSum(a, mid + 1, hi)

RECURSIVE LcmRange(_, _, _)
LcmRange(s, lo, hi) ==
    IF lo > hi THEN 1
    ELSE IF lo = hi THEN s[lo].d
    ELSE LET mid == (lo + hi) \div 2
             l == LcmRange(s, lo, mid)
             r == LcmRange(s, mid + 1, hi)
         IN  (l \div GCD(l, r)) * r

\* the finite entries of v as integers over their common denominator
CommonDen(v) == LcmRange(v, 1, Len(v))
Numerators(v) == LET D == CommonDen(v) IN [i \in 1..Len(v) |-> v[i].n * (D \div v[i].d)]

\* Series.std() squared: sample variance (ddof = 1) of the non-NaN entries;
\* NaN with fewer than two entries, NaN when an infinite entry is included
var(s) ==
    LET v == dropna(s)
        c == Len(v)
        D == CommonDen(v)
        a == Numerators(v)
        sum == IntSum(a, 1, c)
        squares == IntSum([i \in 1..c |-> a[i] * a[i]], 1, c)
    IN  IF c < 2 THEN NaN
        ELSE IF \E i \in 1..c : IsInf(v[i]) THEN NaN
        ELSE Rat(c * squares - sum * sum, c * (c - 1) * D * D)

\* s.std() > t, decided on the variance
StdExceeds(s, t) == Greater(var(s), t * t)

(***************************************************************************)
(* statsmodels.tsa.seasonal.seasonal_decompose(x, model='additive'), as    *)
(* called at tm.py:44 with every other argument left at its default.       *)
(***************************************************************************)
\* freq_to_period of the index's inferred frequency; 0 stands for "no
\* frequency" (an irregular index, or fewer than three timestamps)
freq_to_period(f, nobs) ==
    IF nobs < 3 THEN 0
    ELSE CASE f = "A" -> 1
           [] f = "Q" -> 4
           [] f = "B" -> 5
           [] f = "M" -> 12
           [] OTHER -> 0

AllFinite(x) == \A i \in 1..Len(x) : IsNum(x[i])

\* variant: the missing-value test is left out
DecomposeError_IgnoresMissing(x, f) ==
    LET period == freq_to_period(f, Len(x))
    IN  IF period = 0 THEN "no_period"
        ELSE IF Len(x) < 2 * period THEN "insufficient_data"
        ELSE "none"

\* the exception seasonal_decompose raises on x, "none" when it returns
DecomposeError(x, f) ==
    LET period == freq_to_period(f, Len(x))
    IN  IF ~AllFinite(x) THEN "missing_values"
        ELSE IF period = 0 THEN "no_period"
        ELSE IF Len(x) < 2 * period THEN "insufficient_data"
        ELSE "none"

\* two-sided convolution filter: the centred moving average of one period,
\* with half weights at both ends when the period is even
TrendAt(x, period, i) ==
    LET half == period \div 2
        win == [j \in 1..(2 * half + 1) |-> x[i - half + j - 1]]
        inner == [j \in 1..(2 * half - 1) |-> win[j + 1]]
    IN  IF i - half < 1 \/ i + half > Len(x) THEN NaN
        ELSE IF period % 2 = 0
             THEN DivInt(Add(Add(win[1], win[2 * half + 1]),
                             Add(SumSeq(inner), SumSeq(inner))), 2 * period)
             ELSE DivInt(SumSeq(win), period)

Trend(x, period) == [i \in 1..Len(x) |-> TrendAt(x, period, i)]

RECURSIVE Phase(_, _, _)
\* x[p::period] for the zero-based phase p
Phase(s, period, i) ==
    IF i > Len(s) THEN <<>> ELSE <<s[i]>> \o Phase(s, period, i + period)

\* seasonal_mean: nanmean of each phase of the detrended series
RawSeasonal(detrended, period) ==
    [p \in 1..period |-> mean(Phase(detrended, period, p))]

\* variant: the raw seasonal indices are not centred
PeriodAverages_NotCentred(detrended, period) == RawSeasonal(detrended, period)

\* period_averages -= np.mean(period_averages)
PeriodAverages(detrended, period) ==
    LET raw == RawSeasonal(detrended, period)
        m == DivInt(SumSeq(raw), period)
    IN  [p \in 1..period |-> Sub(raw[p], m)]

\* np.tile(period_averages, nobs // period + 1)[:nobs]
Seasonal(detrended, period) ==
    LET pa == PeriodAverages(detrended, period)
    IN  [i \in 1..Len(detrended) |-> pa[((i - 1) % period) + 1]]

\* variant: the seasonal component is not taken out of the residual
Resid_KeepsSeasonal(detrended, seasonal) == detrended

\* resid = detrended - seasonal
Resid(detrended, seasonal) ==
    [i \in 1..Len(detrended) |-> Sub(detrended[i], seasonal[i])]

NoDecomposition ==
    [ok |-> FALSE, observed |-> <<>>, trend |-> <<>>, seasonal |-> <<>>, resid |-> <<>>]

seasonal_decompose(x, f) ==
    LET period == freq_to_period(f, Len(x))
        trend == Trend(x, period)
        detrended == [i \in 1..Len(x) |-> Sub(x[i], trend[i])]
        seasonal == Seasonal(detrended, period)
    IN  [ok |-> TRUE, observed |-> x, trend |-> trend, seasonal |-> seasonal,
         resid |-> Resid(detrended, seasonal)]

(***************************************************************************)
(* statsmodels.tsa.stattools.adfuller, acf and pacf, as called at          *)
(* tm.py:84-93.  The regression behind the ADF p-value and the             *)
(* Yule-Walker solves behind the PACF are not computed: the p-value is     *)
(* kept as the one bit the program reads (p < 0.05), a PACF entry beyond   *)
(* lag 0 as NaN-free placeholder Zero.                                     *)
(***************************************************************************)
Min(a, b) == IF a < b THEN a ELSE b

IsConstant(x) == \A i \in 1..Len(x) : x[i] = x[1]

\* adfuller raises when the sample is too short for the regression
\* (nobs // 2 - ntrend - 1 < 0 with ntrend = 1)
AdfTooShort(x) == (Len(x) \div 2) - 2 < 0

NoResult == [ok |-> FALSE, pLow |-> FALSE]

\* c * (x[t] - mean(x)) for every t, as integers over the common denominator
Deviations(x) ==
    LET a == Numerators(x)
        sum == IntSum(a, 1, Len(x))
    IN  [t \in 1..Len(x) |-> Len(x) * a[t] - sum]

\* biased sample autocovariance at lag k, up to a positive factor
AcovSum(dev, k) ==
    IntSum([t \in 1..(Len(dev) - k) |-> dev[t + k] * dev[t]], 1, Len(dev) - k)

\* acf(x, nlags): avf[:nlags + 1] / avf[0]; 0/0 is NaN on a constant series
acf(x, nlags) ==
    LET dev == Deviations(x)
        a0 == AcovSum(dev, 0)
    IN  [j \in 1..Min(nlags + 1, Len(x)) |->
            IF a0 = 0 THEN NaN ELSE Rat(AcovSum(dev, j - 1), a0)]

\* pacf refuses lags beyond half the sample in the releases that check it
PacfMayRaise(x, nlags) == nlags >= Len(x) \div 2

\* pacf(x, nlags): nlags + 1 entries, the first one 1.0
pacf(x, nlags) ==
    [j \in 1..(nlags + 1) |-> IF j = 1 THEN Num(1) ELSE Zero]

(***************************************************************************)
(* pandas operations of the heuristic steps, tm.py:104-112.                *)
(***************************************************************************)
\* Series.rolling(window).mean(): NaN until the window is full, and
\* wherever the window holds a NaN
RollingMean(y, window) ==
    [i \in 1..Len(y) |->
        IF i < window THEN NaN
        ELSE DivInt(SumSeq([j \in 1..window |-> y[i - window + j]]), window)]

\* Series.pct_change(): (y[t] - y[t-1]) / y[t-1], NaN at the first row
pct_change(y) ==
    [i \in 1..Len(y) |->
        IF i = 1 THEN NaN ELSE Div(Sub(y[i], y[i - 1]), y[i - 1])]

\* Series.std() of the returns, left symbolic: the entries it is taken over
\* (NaN skipped) and whether the result is NaN (fewer than two entries, or an
\* infinite entry among them)
StdOf(s) ==
    LET v == dropna(s)
    IN  [over |-> v, nan |-> Len(v) < 2 \/ \E i \in 1..Len(v) : IsInf(v[i])]

\* df['Returns'] = s.dropna(): the assignment aligns on the index, so the
\* dropped rows come back as NaN
AssignColumn(table, name, s) ==
    [c \in DOMAIN table \cup {name} |-> IF c = name THEN s ELSE table[c]]

(***************************************************************************)
(* State of one run.                                                       *)
(***************************************************************************)
VARIABLES
    pc,              \* the statement the script is at
    df,              \* the table: column name -> sequence of cells
    df0,             \* the table as it was loaded (never assigned again)
    freq,            \* frequency pandas infers from the Month index
    out,             \* what st.write / st.error have shown, in order
    exc,             \* the exception caught by the try block, "none" if none
    decomposition,   \* tm.py:44
    result,          \* tm.py:84
    lags,            \* tm.py:91
    acf_values,      \* tm.py:92 (a sequence of at most one result)
    pacf_values,     \* tm.py:93 (a sequence of at most one result)
    mean_reversion,  \* tm.py:104 (a sequence of at most one result)
    volatility,      \* tm.py:112 (a sequence of at most one result)
    given            \* the series handed to each library call

vars == <<pc, df, df0, freq, out, exc, decomposition, result, lags,
          acf_values, pacf_values, mean_reversion, volatility, given>>

Msg(kind, flag, value) == [kind |-> kind, flag |-> flag, value |-> value]

NRows(table) == Len(table[CHOOSE c \in DOMAIN table : TRUE])

(***************************************************************************)
(* The tables a run may be given.                                          *)
(***************************************************************************)
Vals == {0, 1, 50}
SmallVals == {0, 1, 2}
Freqs == {"none", "A", "Q", "B", "M"}
LongFreqs == {"none", "A"}
Slopes == {0, 1}
LongLens == {MaxLagCap + 2, 2 * MaxLagCap + 2}

Patterns(V) == [1..MaxPat -> V]

\* pat repeated over n rows on a ramp of the given slope; missingAt marks
\* one row as missing (0: none)
MakeSeries(pat, slope, n, missingAt) ==
    [i \in 1..n |->
        IF i = missingAt THEN NaN
        ELSE Num(pat[((i - 1) % Len(pat)) + 1] + slope * (i - 1))]

ShortSeries ==
    {MakeSeries(pat, slope, n, m) :
        pat \in Patterns(Vals), slope \in Slopes, n \in 0..MaxLen, m \in {0, 1}}

LongSeries ==
    {MakeSeries(pat, 0, n, m) : pat \in Patterns(SmallVals), n \in LongLens, m \in {0, 1}}

\* the caller's columns next to (or instead of) 'Passengers'
Tables(y) ==
    LET other == [i \in 1..Len(y) |-> Num(7)]
    IN  { [c \in {"Passengers"} |-> y],
          [c \in {"Passengers", "Returns"} |-> IF c = "Passengers" THEN y ELSE other],
          [c \in {"Sales"} |-> y] }

NoCalls == [decomposer |-> <<>>, adf |-> <<>>, acf |-> <<>>, pacf |-> <<>>]

Init ==
    /\ \/ \E y \in ShortSeries : df \in Tables(y) /\ freq \in Freqs
       \/ \E y \in LongSeries : df \in Tables(y) /\ freq \in LongFreqs
    /\ df0 = df
    /\ pc = "check"
    /\ out = <<>>
    /\ exc = "none"
    /\ decomposition = NoDecomposition
    /\ result = NoResult
    /\ lags = 0
    /\ acf_values = <<>>
    /\ pacf_values = <<>>
    /\ mean_reversion = <<>>
    /\ volatility = <<>>
    /\ given = NoCalls

(***************************************************************************)
(* The run, statement by statement.                                        *)
(***************************************************************************)
Raise(e) ==
    /\ exc' = e
    /\ pc' = "except"

\* variant: the column check is left out
ColumnCheck_NoCheck ==
    /\ pc = "check"
    /\ out' = Append(out, Msg("loaded", TRUE, NaN))
    /\ pc' = "decompose"
    /\ UNCHANGED <<df, df0, freq, exc, decomposition, result, lags, acf_values,
                   pacf_values, mean_reversion, volatility, given>>

\* tm.py:24-28: the column check
ColumnCheck ==
    /\ pc = "check"
    /\ IF "Passengers" \notin DOMAIN df
       THEN /\ out' = Append(out, Msg("schema_error", FALSE, NaN))
            /\ pc' = "done"
       ELSE /\ out' = Append(out, Msg("loaded", TRUE, NaN))
            /\ pc' = "decompose"
    /\ UNCHANGED <<df, df0, freq, exc, decomposition, result, lags, acf_values,
                   pacf_values, mean_reversion, volatility, given>>

\* tm.py:44: decomposition = seasonal_decompose(df['Passengers'], model='additive')
Decompose ==
    /\ pc = "decompose"
    /\ IF "Passengers" \notin DOMAIN df
       THEN /\ Raise("key_error")
            /\ UNCHANGED <<decomposition, given>>
       ELSE LET x == df["Passengers"]
                e == DecomposeError(x, freq)
            IN  /\ given' = [given EXCEPT !.decomposer = <<x>>]
                /\ IF e # "none"
                   THEN /\ Raise(e)
                        /\ UNCHANGED decomposition
                   ELSE /\ decomposition' = seasonal_decompose(x, freq)
                        /\ pc' = "trend"
                        /\ UNCHANGED exc
    /\ UNCHANGED <<df, df0, freq, out, result, lags, acf_values, pacf_values,
                   mean_reversion, volatility>>

\* s.mean() != 0, where NaN != 0 is true
MeanNonZero(s) == LET m == mean(s) IN ~(IsNum(m) /\ m.n = 0)

Emit(kind, flag, value, next) ==
    /\ out' = Append(out, Msg(kind, flag, value))
    /\ pc' = next

\* tm.py:63-69
TrendVerdict ==
    /\ pc = "trend"
    /\ Emit("trend", MeanNonZero(dropna(decomposition.trend)), NaN, "seasonality")
    /\ UNCHANGED <<df, df0, freq, exc, decomposition, result, lags, acf_values,
                   pacf_values, mean_reversion, volatility, given>>

\* tm.py:71-75
SeasonalityVerdict ==
    /\ pc = "seasonality"
    /\ Emit("seasonality", MeanNonZero(dropna(decomposition.seasonal)), NaN, "irregularity")
    /\ UNCHANGED <<df, df0, freq, exc, decomposition, result, lags, acf_values,
                   pacf_values, mean_reversion, volatility, given>>

\* tm.py:77-81
IrregularityVerdict ==
    /\ pc = "irregularity"
    /\ Emit("irregularity",
            StdExceeds(dropna(decomposition.resid), IrregularityThreshold), NaN, "adfuller")
    /\ UNCHANGED <<df, df0, freq, exc, decomposition, result, lags, acf_values,
                   pacf_values, mean_reversion, volatility, given>>

\* tm.py:84: result = adfuller(df['Passengers'].dropna()).  A constant
\* series is rejected by the releases that test for it and gives a NaN
\* p-value in the others.
Adfuller ==
    /\ pc = "adfuller"
    /\ LET x == dropna(df["Passengers"])
       IN  /\ given' = [given EXCEPT !.adf = <<x>>]
           /\ IF AdfTooShort(x)
              THEN Raise("sample_too_short") /\ UNCHANGED result
              ELSE IF IsConstant(x)
              THEN \/ Raise("constant_series") /\ UNCHANGED result
                   \/ /\ result' = [ok |-> TRUE, pLow |-> FALSE]
                      /\ pc' = "stationarity"
                      /\ UNCHANGED exc
              ELSE /\ \E low \in BOOLEAN : result' = [ok |-> TRUE, pLow |-> low]
                   /\ pc' = "stationarity"
                   /\ UNCHANGED exc
    /\ UNCHANGED <<df, df0, freq, out, decomposition, lags, acf_values,
                   pacf_values, mean_reversion, volatility>>

\* variant: the heuristic steps follow the ADF verdict directly
StationarityVerdict_SkipsCorrelation ==
    /\ pc = "stationarity"
    /\ out' = Append(out, Msg("stationarity", result.pLow, NaN))
    /\ pc' = "mean_reversion"
    /\ UNCHANGED <<df, df0, freq, exc, decomposition, result, lags, acf_values,
                   pacf_values, mean_reversion, volatility, given>>

\* tm.py:85-88
StationarityVerdict ==
    /\ pc = "stationarity"
    /\ Emit("stationarity", result.pLow, NaN, "acf")
    /\ UNCHANGED <<df, df0, freq, exc, decomposition, result, lags, acf_values,
                   pacf_values, mean_reversion, volatility, given>>

\* variant: min(len(df), 40)
ComputeLags_OffByOne == Min(NRows(df), MaxLagCap)

\* tm.py:91: lags = min(len(df) - 1, 40)
ComputeLags == Min(NRows(df) - 1, MaxLagCap)

\* tm.py:91-92
Acf ==
    /\ pc = "acf"
    /\ LET x == dropna(df["Passengers"])
       IN  /\ lags' = ComputeLags
           /\ given' = [given EXCEPT !.acf = <<x>>]
           /\ acf_values' = <<acf(x, ComputeLags)>>
    /\ pc' = "pacf"
    /\ UNCHANGED <<df, df0, freq, out, exc, decomposition, result, pacf_values,
                   mean_reversion, volatility>>

\* tm.py:93
Pacf ==
    /\ pc = "pacf"
    /\ LET x == dropna(df["Passengers"])
       IN  /\ given' = [given EXCEPT !.pacf = <<x>>]
           /\ \/ /\ PacfMayRaise(x, lags)
                 /\ Raise("too_many_lags")
                 /\ UNCHANGED pacf_values
              \/ /\ pacf_values' = <<pacf(x, lags)>>
                 /\ pc' = "mean_reversion"
                 /\ UNCHANGED exc
    /\ UNCHANGED <<df, df0, freq, out, decomposition, result, lags, acf_values,
                   mean_reversion, volatility>>

\* tm.py:103-108
MeanReversion ==
    /\ pc = "mean_reversion"
    /\ LET mr == dropna(RollingMean(df["Passengers"], RollingWindow))
       IN  /\ mean_reversion' = <<mr>>
           /\ Emit("mean_reversion", StdExceeds(mr, MeanReversionThreshold), NaN,
                   "volatility")
    /\ UNCHANGED <<df, df0, freq, exc, decomposition, result, lags, acf_values,
                   pacf_values, volatility, given>>

\* tm.py:110-113
Volatility ==
    /\ pc = "volatility"
    /\ LET returns == pct_change(df["Passengers"])
           table == AssignColumn(df, "Returns", returns)
           v == StdOf(table["Returns"])
       IN  /\ df' = table
           /\ volatility' = <<v>>
           /\ Emit("volatility", ~v.nan, NaN, "done")
    /\ UNCHANGED <<df0, freq, exc, decomposition, result, lags, acf_values,
                   pacf_values, mean_reversion, given>>

\* variant: the handler reports the error and the run goes on
Except_Resumes ==
    /\ pc = "except"
    /\ out' = Append(out, Msg("analysis_error", FALSE, NaN))
    /\ pc' = "mean_reversion"
    /\ UNCHANGED <<df, df0, freq, exc, decomposition, result, lags, acf_values,
                   pacf_values, mean_reversion, volatility, given>>

\* tm.py:115-116: except Exception as e: st.error(...)
Except ==
    /\ pc = "except"
    /\ Emit("analysis_error", FALSE, NaN, "done")
    /\ UNCHANGED <<df, df0, freq, exc, decomposition, result, lags, acf_values,
                   pacf_values, mean_reversion, volatility, given>>

Next ==
    \/ ColumnCheck
    \/ Decompose
    \/ TrendVerdict
    \/ SeasonalityVerdict
    \/ IrregularityVerdict
    \/ Adfuller
    \/ StationarityVerdict
    \/ Acf
    \/ Pacf
    \/ MeanReversion
    \/ Volatility
    \/ Except

Spec == Init /\ [][Next]_vars

(***************************************************************************)
(* Vocabulary of the properties.                                           *)
(***************************************************************************)
Order == <<"trend", "seasonality", "irregularity", "stationarity",
           "mean_reversion", "volatility">>

IsDiagnostic(m) == \E i \in 1..Len(Order) : m.kind = Order[i]
IsAnalysisError(m) == m.kind = "analysis_error"

Diagnostics == SelectSeq(out, IsDiagnostic)
Errors == SelectSeq(out, IsAnalysisError)

Emitted(kind) == \E i \in 1..Len(out) : out[i].kind = kind

HasPassengers == "Passengers" \in DOMAIN df0

DecomposerDone == decomposition.ok
StationarityDone == result.ok
CorrelationDone == acf_values # <<>> /\ pacf_values # <<>>
AllThreeDone == DecomposerDone /\ StationarityDone /\ CorrelationDone

\* the five verdicts of the heuristic step (the stationarity line reports
\* the ADF result itself)
HeuristicKinds == {"trend", "seasonality", "irregularity", "mean_reversion", "volatility"}

C2_CorrelationSurvivesDecomposerFailure ==
    (/\ pc = "done"
     /\ HasPassengers
     /\ AllFinite(df0["Passengers"])
     /\ freq_to_period(freq, NRows(df0)) > 0
     /\ NRows(df0) < 2 * freq_to_period(freq, NRows(df0)))
    => /\ exc = "insufficient_data"
       /\ Min(NRows(df0) - 1, MaxLagCap) < NRows(df0) => CorrelationDone

(***************************************************************************)
(* C3.  The max_lag handed to acf and pacf is min(n - 1, 40), n the length *)
(* of the series passed to them, so max_lag < n at the call, and each      *)
(* result has max_lag + 1 entries.                                         *)
(***************************************************************************)
C3_LagsClamped ==
    /\ acf_values # <<>> =>
          LET n == Len(given.acf[1])
          IN  /\ lags = Min(n - 1, MaxLagCap)
              /\ lags < n
              /\ Len(acf_values[1]) = lags + 1
    /\ pacf_values # <<>> =>
          LET n == Len(given.pacf[1])
          IN  /\ lags = Min(n - 1, MaxLagCap)
              /\ lags < n
              /\ Len(pacf_values[1]) = lags + 1

C3_Witness ==
    /\ CorrelationDone
    /\ Len(given.acf[1]) > MaxLagCap + 1
    /\ lags = MaxLagCap
    /\ Len(acf_values[1]) = MaxLagCap + 1

(***************************************************************************)
(* C4.  A run leaves the input table unchanged: when it is over, the table *)
(* has the columns and the values it had before the run.                   *)
(***************************************************************************)
C4_TableUnchanged == pc = "done" => df = df0

(***************************************************************************)
(* C5.  On a table without the 'Passengers' column the run reports the     *)
(* schema error and does nothing else: no library call is made, no result  *)
(* is computed, no diagnostic or analysis error is emitted.                *)
(***************************************************************************)
C5_SchemaErrorOnly ==
    ~HasPassengers =>
        /\ given = NoCalls
        /\ decomposition = NoDecomposition
        /\ result = NoResult
        /\ acf_values = <<>> /\ pacf_values = <<>>
        /\ mean_reversion = <<>> /\ volatility = <<>>
        /\ exc = "none"
        /\ df = df0
        /\ out = IF pc = "done" THEN <<Msg("schema_error", FALSE, NaN)>> ELSE <<>>

C5_Witness ==
    /\ ~HasPassengers
    /\ pc = "done"
    /\ out = <<Msg("schema_error", FALSE, NaN)>>

(***************************************************************************)
(* C6.  The volatility is never taken over an infinite percentage change:  *)
(* a term whose denominator y[t-1] is 0 is excluded from the standard      *)
(* deviation, or the run fails instead of reporting a volatility.          *)
(***************************************************************************)
C6_NoInfiniteTermInVolatility ==
    volatility # <<>> =>
        \A i \in 1..Len(volatility[1].over) : ~IsInf(volatility[1].over[i])

(***************************************************************************)
(* C7.  When decompose succeeds, observed = trend + seasonal + residual at *)
(* every index where trend is defined, and residual is undefined exactly   *)
(* where trend is undefined.                                               *)
(***************************************************************************)
C7_Reconstruction ==
    decomposition.ok =>
        /\ decomposition.observed = df0["Passengers"]
        /\ \A i \in 1..Len(decomposition.observed) :
              /\ IsNaN(decomposition.resid[i]) <=> IsNaN(decomposition.trend[i])
              /\ IsNum(decomposition.trend[i]) =>
                    decomposition.observed[i] =
                        Add(Add(decomposition.trend[i], decomposition.seasonal[i]),
                            decomposition.resid[i])

C7_Witness ==
    /\ decomposition.ok
    /\ \E i \in 1..Len(decomposition.trend) : IsNaN(decomposition.trend[i])
    /\ \E i \in 1..Len(decomposition.trend) :
          /\ IsNum(decomposition.resid[i]) /\ decomposition.resid[i] # Zero
          /\ decomposition.seasonal[i] # Zero

(***************************************************************************)
(* C8.  Within one run the Decomposer, the StationarityTester and the      *)
(* CorrelationEngine are handed the same series: the arguments of any two  *)
(* of the library calls made are identical.                                *)
(***************************************************************************)
C8_SameSeries ==
    LET calls == given.decomposer \o given.adf \o given.acf \o given.pacf
    IN  \A i, j \in 1..Len(calls) : calls[i] = calls[j]

C8_Witness ==
    /\ given.decomposer # <<>> /\ given.adf # <<>>
    /\ given.acf # <<>> /\ given.pacf # <<>>
    /\ given.pacf[1] = df0["Passengers"]
    /\ Len(given.pacf[1]) > 0

(***************************************************************************)
(* C9.  On a table with the 'Passengers' column the diagnostics emitted    *)
(* are a prefix of trend, seasonality, irregularity, stationarity, mean    *)
(* reversion, volatility; a failed run ends with exactly one error         *)
(* message, after which nothing is emitted; a run that did not fail emits  *)
(* none; and nothing emitted is ever taken back.                           *)
(***************************************************************************)
C9_State ==
    HasPassengers =>
        /\ Len(Diagnostics) <= Len(Order)
        /\ \A i \in 1..Len(Diagnostics) : Diagnostics[i].kind = Order[i]
        /\ Len(Errors) <= 1
        /\ Len(Errors) = 1 => /\ IsAnalysisError(out[Len(out)])
                              /\ pc = "done"
                              /\ exc # "none"
        /\ (pc = "done" /\ exc # "none") => Len(Errors) = 1
        /\ (pc = "done" /\ exc = "none") => Len(Diagnostics) = Len(Order)

C9_Kept == Len(out') >= Len(out) /\ SubSeq(out', 1, Len(out)) = out

C9_OrderedPrefixThenOneError == []C9_State /\ [][C9_Kept]_vars

C9_Witness ==
    /\ pc = "done"
    /\ exc = "too_many_lags"
    /\ Len(Diagnostics) = 4
    /\ IsAnalysisError(out[Len(out)])

(***************************************************************************)
(* C10.  In exact arithmetic, when the length of the series is a whole     *)
(* multiple of the period and decomposition succeeds, the mean of the      *)
(* seasonal component is exactly 0 and the seasonality verdict is false.   *)
(***************************************************************************)
C10_NoSeasonalityOnWholeCycles ==
    (decomposition.ok /\ NRows(df0) % freq_to_period(freq, NRows(df0)) = 0) =>
        /\ mean(decomposition.seasonal) = Zero
        /\ \A i \in 1..Len(out) : out[i].kind = "seasonality" => ~out[i].flag

C10_Witness ==
    /\ decomposition.ok
    /\ freq_to_period(freq, NRows(df0)) > 1
    /\ NRows(df0) % freq_to_period(freq, NRows(df0)) = 0
    /\ \E i \in 1..NRows(df0) : decomposition.seasonal[i] # Zero
    /\ \E i \in 1..Len(out) : out[i].kind = "seasonality" /\ ~out[i].flag

====
